---- MODULE Spec2Model ----
(***************************************************************************)
(* A model of maptalks.clusterlayer (src/index.js): the ClusterLayer and   *)
(* its canvas renderer.  The renderer keeps a per-zoom cache of grid       *)
(* clusterings of the layer's visible markers.                             *)
(*                                                                         *)
(* Coordinates are projected coordinates, modelled as naturals.  A         *)
(* centre, which the code computes as sum.multi(1 / count), is kept as the *)
(* exact fraction <<x, y>> / d, so that distances and cell indices are     *)
(* computed on the real value (floating-point rounding is not modelled).   *)
(* A JavaScript object used as a dictionary is a sequence in insertion     *)
(* order, which is the order for..in visits its keys in.  A reference to a *)
(* cluster object of one level is the key of that object, which is unique  *)
(* in its level.                                                           *)
(***************************************************************************)
EXTENDS Integers, Sequences, FiniteSets, TLC

\* ---------------------------------------------------------------- bounds
\* markers of a layer in the planar family of SpecGrid
MaxPts == 4
\* largest coordinate of the planar family
MaxC == 2
\* markers of a layer in the collinear family of SpecGrid
MaxLinePts == 4
\* hidden markers of a layer in the collinear family
MaxHidden == 1
\* largest x of the collinear family (y = 0)
MaxLine == 4
\* markers of a layer in the weighted family of SpecGrid (on the x axis up
\* to MaxLine)
MaxWPts == 3
\* largest value of a marker's property in the weighted family
MaxWeight == 2
\* markers the layer of Spec may hold
MaxMarkers == 2
\* largest x of a marker of Spec (y = 0)
MaxLifeC == 1
\* the map's finest zoom level
MaxZoom == 2
\* geometry events the map lets pass before it redraws the clusters
MaxPending == 1
\* markers of a layer of SpecHost (on the x axis up to MaxLine)
MaxHostPts == 2
\* geometries the layer of SpecApi may hold
MaxGeos == 3
\* geometries one call of addGeometry is given
MaxAdd == 2
\* largest x of a geometry of SpecApi (y = 0), and of an identify
MaxApiC == 2
\* largest options['maxClusterRadius'] a configuration sets
MaxRadius == 2
\* widest cluster sprite, in halves of the default maxClusterRadius
MaxWidth == 2

\* map.getMinZoom()
MinZoom == 0

\* options['maxClusterRadius'], in world units per unit of resolution (the
\* source's default of 160 pixels, with the world unit chosen to match)
DefaultMaxClusterRadius == 1

Levels == MinZoom..MaxZoom

VARIABLES
    geoList,            \* layer._geoList: the markers, in insertion order
    layerVisible,       \* layer.isVisible()
    maxClusterRadius,   \* layer.options['maxClusterRadius']
    maxClusterZoom,     \* layer.options['maxClusterZoom']; 0 is null
    noClusterWithOneMarker, \* layer.options['noClusterWithOneMarker']
    textSumProperty,    \* layer.options['textSumProperty'] is a property name
    resolutions,        \* the levels map._getResolution has a resolution for
    zoom,               \* map.getZoom()
    clusterNeedRedraw,  \* renderer._clusterNeedRedraw
    markerExtent,       \* renderer._markerExtent
    markerPoints,       \* renderer._markerPoints
    clusterCache,       \* renderer._clusterCache
    currentClusters,    \* renderer._currentClusters
    markersToDraw,      \* renderer._markersToDraw
    error,              \* the exception the last handler threw, if any
    pending,            \* geometry events since the clusters were last rebuilt
    identified,         \* what the last handler returned, when it was identify
    last                \* the last handler that ran and what it computed

vars == <<geoList, layerVisible, maxClusterRadius, maxClusterZoom,
          noClusterWithOneMarker, textSumProperty, resolutions, zoom,
          clusterNeedRedraw, markerExtent, markerPoints, clusterCache,
          currentClusters, markersToDraw, error, pending, identified, last>>

\* ------------------------------------------------------------ primitives
Range(s) == {s[i] : i \in 1..Len(s)}

SetMin(S) == CHOOSE m \in S : \A n \in S : m <= n

RECURSIVE Pow2(_)
Pow2(n) == IF n <= 0 THEN 1 ELSE 2 * Pow2(n - 1)

RECURSIVE SumSeq(_)
SumSeq(s) == IF Len(s) = 0 THEN 0 ELSE Head(s) + SumSeq(Tail(s))

RECURSIVE Flatten(_)
Flatten(ss) == IF Len(ss) = 0 THEN <<>> ELSE Head(ss) \o Flatten(Tail(ss))

\* a number that is no number: the NaN that arithmetic on undefined, or on a
\* coordinate that is not finite, yields.  It stands apart from every number
\* the model computes with.
NaN == -1000

\* a + b and a * b on numbers that may be NaN
Plus(a, b) == IF a = NaN \/ b = NaN THEN NaN ELSE a + b

Times(a, b) == IF a = NaN \/ b = NaN THEN NaN ELSE a * b

\* map._getResolution(z): world units per pixel, halving with every level;
\* undefined, which arithmetic turns to NaN, for a level the host has no
\* resolution for
HasResolution(z) == z \in resolutions
Resolution(z) == IF HasResolution(z) THEN Pow2(MaxZoom - z) ELSE NaN

\* ------------------------------------------------------- values of the state
\* undefined _markerExtent / the extent's minimum corner
NoExtent == [def |-> FALSE, minx |-> 0, miny |-> 0]

\* a cluster without a 'parent' property, or whose parent is undefined
NoParent == [def |-> FALSE, key |-> <<0, 0>>]

\* entries of _clusterCache: no property, null, or a {clusters, clusterMap}
Absent == [kind |-> "absent"]
NullResult == [kind |-> "null"]
IsResult(e) == e.kind = "result"

\* this._clusterCache[z]; a property a dictionary lacks reads as undefined
CacheGet(cache, z) == IF z \in DOMAIN cache THEN cache[z] ELSE Absent

EmptyCache == [z \in Levels |-> Absent]

\* the index of the entry with this key in a dictionary (0 when it has none)
IndexOfKey(grids, key) ==
    IF \E i \in 1..Len(grids) : grids[i].key = key
    THEN CHOOSE i \in 1..Len(grids) : grids[i].key = key
    ELSE 0

\* a merge that leaves the absorbed cell in the dictionary
DeleteKeyKeeps(grids, key) == grids

\* delete grids[key]
DeleteKey(grids, key) == SelectSeq(grids, LAMBDA g : g.key # key)

\* Math.floor((v - min) / r) on non-negative operands
CellIndex(v, min, r) ==
    IF v = NaN \/ min = NaN \/ r = NaN THEN NaN ELSE (v - min) \div r

\* gx + '_' + gy, and back by split('_') and unary plus: a pair of integers
CellKey(x, y, min, r) == <<CellIndex(x, min.minx, r), CellIndex(y, min.miny, r)>>

\* ------------------------------------------------------- _initGridSystem
\* the geometries forEach does not skip: if (!g.isVisible()) return
IsIndexed(g) == g.visible

VisibleGeos(list) == SelectSeq(list, LAMBDA g : IsIndexed(g))

\* the lower bound of the combined extents: extent._combine, which is the
\* host's, passes over a bound that is not a number
ExtentMin(S) == IF S \ {NaN} = {} THEN NaN ELSE SetMin(S \ {NaN})

\* a point refers to its geometry, of which the clustering reads the
\* property that options['textSumProperty'] names (0 when it has none)
InitGridSystem(list) ==
    LET vis == VisibleGeos(list)
    IN  [extent |-> IF Len(vis) = 0 THEN NoExtent
                    ELSE [def |-> TRUE,
                          minx |-> ExtentMin({vis[i].x : i \in 1..Len(vis)}),
                          miny |-> ExtentMin({vis[i].y : i \in 1..Len(vis)})],
         points |-> [i \in 1..Len(vis) |->
                        [x |-> vis[i].x, y |-> vis[i].y, id |-> vis[i].id,
                         prop |-> vis[i].prop]]]

\* ----------------------------------------------------------- _distanceTo
\* a distance test against r2 itself, the cell size, not half of it
DistanceWithinCell(c1, c2, r2) ==
    LET dx == c1.x * c2.d - c2.x * c1.d
        dy == c1.y * c2.d - c2.y * c1.d
        dd == c1.d * c2.d
    IN  /\ NaN \notin {c1.x, c1.y, c2.x, c2.y, r2}
        /\ dx * dx + dy * dy <= r2 * r2 * dd * dd

\* _distanceTo(c1, c2) <= r for centres kept as fractions, with r given as
\* r2 / 2:  sqrt(dx^2 + dy^2) <= r2 / 2, squared and cleared of denominators;
\* a comparison with NaN is false
DistanceWithin(c1, c2, r2) ==
    LET dx == c1.x * c2.d - c2.x * c1.d
        dy == c1.y * c2.d - c2.y * c1.d
        dd == c1.d * c2.d
    IN  /\ NaN \notin {c1.x, c1.y, c2.x, c2.y, r2}
        /\ 4 * (dx * dx + dy * dy) <= r2 * r2 * dd * dd

\* sum.multi(1 / count)
CenterOf(sum, count) == [x |-> sum[1], y |-> sum[2], d |-> count]

\* ------------------------------------------------------ _computeZoomGrid
\* preCache['clusterMap'][pkey] for the cell of (x, y) under the cell size
\* preT of the coarser level: a reference to a cluster of that level
ParentLookup(x, y, min, preT, preCache) ==
    LET pkey == CellKey(x, y, min, preT)
    IN  IF pkey \in DOMAIN preCache.clusterMap
        THEN [def |-> TRUE, key |-> preCache.clusterMap[pkey]]
        ELSE NoParent

\* the parent given to a cell when its first point p creates it
CellParent(p, min, preT, preCache) ==
    IF preT.def /\ IsResult(preCache)
    THEN ParentLookup(p.x, p.y, min, preT.v, preCache)
    ELSE NoParent

\* sumProp: the point's property when options['textSumProperty'] names one
\* and the geometry has a value for it that is not falsy
SumProp(p) == IF textSumProperty /\ p.prop # 0 THEN p.prop ELSE 0

\* grids[key] = {...}: the cell the point p creates
NewCell(p, key, min, preT, preCache) ==
    [key |-> key,
     sum |-> <<p.x, p.y>>,
     center |-> [x |-> p.x, y |-> p.y, d |-> 1],
     count |-> 1,
     textSumProperty |-> SumProp(p),
     children |-> <<p.id>>,
     parent |-> CellParent(p, min, preT, preCache)]

\* a point that joins a cell and leaves the cell's property sum as it was
AddToCellUnweighted(g, p) ==
    LET sum == <<Plus(g.sum[1], p.x), Plus(g.sum[2], p.y)>>
    IN  [g EXCEPT !.sum = sum,
                  !.count = g.count + 1,
                  !.center = CenterOf(sum, g.count + 1),
                  !.children = Append(g.children, p.id)]

\* the else branch: the point p joins the cell g
AddToCell(g, p) ==
    LET sum == <<Plus(g.sum[1], p.x), Plus(g.sum[2], p.y)>>
    IN  [g EXCEPT !.sum = sum,
                  !.count = g.count + 1,
                  !.center = CenterOf(sum, g.count + 1),
                  !.children = Append(g.children, p.id),
                  !.textSumProperty = g.textSumProperty + SumProp(p)]

\* the loop over the points, from the i-th on
RECURSIVE BucketPoints(_, _, _, _, _, _, _)
BucketPoints(points, i, grids, min, r, preT, preCache) ==
    IF i > Len(points) THEN grids
    ELSE LET p == points[i]
             key == CellKey(p.x, p.y, min, r)
             at == IndexOfKey(grids, key)
         IN  BucketPoints(points, i + 1,
                 IF at = 0
                 THEN Append(grids, NewCell(p, key, min, preT, preCache))
                 ELSE [grids EXCEPT ![at] = AddToCell(@, p)],
                 min, r, preT, preCache)

\* --------------------------------------------------------- _mergeClusters
\* the offsets (ii, iii) of the two nested loops, in their order
NeighbourOffsets ==
    << <<-1, -1>>, <<-1, 0>>, <<-1, 1>>, <<0, -1>>,
       <<0, 1>>, <<1, -1>>, <<1, 0>>, <<1, 1>> >>

\* c2 && this._distanceTo(c1['center'], c2['center']) <= r, with r = r2 / 2
ShouldMerge(grids, c1, key2, r2) ==
    LET at == IndexOfKey(grids, key2)
    IN  at # 0 /\ DistanceWithin(c1.center, grids[at].center, r2)

\* a search that stops at the first neighbour to merge
NearCellsFirst(grids, c1, r2) ==
    LET keys == [n \in 1..8 |-> <<Plus(c1.key[1], NeighbourOffsets[n][1]),
                                  Plus(c1.key[2], NeighbourOffsets[n][2])>>]
        near == SelectSeq(keys, LAMBDA k : ShouldMerge(grids, c1, k, r2))
    IN  IF Len(near) = 0 THEN <<>> ELSE <<near[1]>>

\* the keys of the cells pushed to merging[c1.key], in push order
NearCells(grids, c1, r2) ==
    LET keys == [n \in 1..8 |-> <<Plus(c1.key[1], NeighbourOffsets[n][1]),
                                  Plus(c1.key[2], NeighbourOffsets[n][2])>>]
    IN  SelectSeq(keys, LAMBDA k : ShouldMerge(grids, c1, k, r2))

\* if (visited[c1.key]) continue
SkipVisited(c1, visited) == c1.key \in visited

\* the first loop, from the i-th cell on: the dictionary 'merging' as a
\* sequence of [key, toMerge]
RECURSIVE FindMerging(_, _, _, _, _)
FindMerging(grids, i, r2, merging, visited) ==
    IF i > Len(grids) THEN merging
    ELSE LET c1 == grids[i]
             near == NearCells(grids, c1, r2)
         IN  IF SkipVisited(c1, visited)
             THEN FindMerging(grids, i + 1, r2, merging, visited)
             ELSE FindMerging(grids, i + 1, r2,
                      IF Len(near) > 0
                      THEN Append(merging, [key |-> c1.key, toMerge |-> near])
                      ELSE merging,
                      visited \cup Range(near))

\* an absorption that leaves the count as it was
AbsorbKeepsCount(grid, c2) ==
    [grid EXCEPT !.sum = <<Plus(grid.sum[1], c2.sum[1]),
                           Plus(grid.sum[2], c2.sum[2])>>,
                 !.textSumProperty = grid.textSumProperty + c2.textSumProperty,
                 !.children = grid.children \o c2.children]

\* the four assignments that add the cell c2 to grid
Absorb(grid, c2) ==
    [grid EXCEPT !.sum = <<Plus(grid.sum[1], c2.sum[1]),
                           Plus(grid.sum[2], c2.sum[2])>>,
                 !.count = grid.count + c2.count,
                 !.textSumProperty = grid.textSumProperty + c2.textSumProperty,
                 !.children = grid.children \o c2.children]

\* a merge that leaves the absorbed key mapped to its own cell
AliasForgotten(clusterMap, key2, key) == clusterMap

\* clusterMap[toMerge[i].key] = grid
Alias(clusterMap, key2, key) == [clusterMap EXCEPT ![key2] = key]

\* a merge that leaves the centre where it was before the merge
RecenterSkipped(grid) == grid

\* grid['center'] = grid['sum'].multi(1 / grid['count'])
Recenter(grid) == [grid EXCEPT !.center = CenterOf(grid.sum, grid.count)]

\* the loop over toMerge, from its i-th cell on; grid is grids[m]
RECURSIVE MergeInto(_, _, _, _)
MergeInto(st, m, toMerge, i) ==
    IF i > Len(toMerge) THEN st
    ELSE LET at == IndexOfKey(st.grids, toMerge[i])
             g == IndexOfKey(st.grids, m)
         IN  IF at = 0
             THEN MergeInto(st, m, toMerge, i + 1)
             ELSE MergeInto(
                      [grids |-> DeleteKey(
                                    [st.grids EXCEPT ![g] = Absorb(@, st.grids[at])],
                                    toMerge[i]),
                       clusterMap |-> Alias(st.clusterMap, toMerge[i], m)],
                      m, toMerge, i + 1)

\* the second loop, from the i-th entry of merging on
RECURSIVE MergeAll(_, _, _)
MergeAll(st, merging, i) ==
    IF i > Len(merging) THEN st
    ELSE LET m == merging[i].key
         IN  IF IndexOfKey(st.grids, m) = 0
             THEN MergeAll(st, merging, i + 1)
             ELSE LET done == MergeInto(st, m, merging[i].toMerge, 1)
                      g == IndexOfKey(done.grids, m)
                  IN  MergeAll([done EXCEPT !.grids[g] = Recenter(@)],
                               merging, i + 1)

\* _mergeClusters(grids, r) with r = r2 / 2: the level's result
MergeClusters(grids, r2) ==
    LET clusterMap == [k \in {grids[i].key : i \in 1..Len(grids)} |-> k]
        merging == FindMerging(grids, 1, r2, <<>>, {})
        st == MergeAll([grids |-> grids, clusterMap |-> clusterMap], merging, 1)
    IN  [kind |-> "result", clusters |-> st.grids, clusterMap |-> st.clusterMap]

\* r and preT of _computeZoomGrid
CellSize(z, radius) == Times(Resolution(z), radius)

PreT(z, radius) ==
    IF HasResolution(z - 1)
    THEN [def |-> TRUE, v |-> Times(Resolution(z - 1), radius)]
    ELSE [def |-> FALSE, v |-> 0]

\* a level computation without the guard on the extent
NoGridUnguarded(extent) == FALSE

\* if (!this._markerExtent) return null
NoGrid(extent) == ~extent.def

\* a level computation that never computes the coarser level first
NeedsCoarserNever(cache, z) == FALSE

\* !preCache && zoom - 1 >= map.getMinZoom()
NeedsCoarser(cache, z) == ~IsResult(CacheGet(cache, z - 1)) /\ z - 1 >= MinZoom

\* _computeZoomGrid(zoom) on the cache: the cache with the coarser levels it
\* stored, the value it returns, the levels it was run for, in call order,
\* and whether it threw: this._markerExtent.getMin() throws a TypeError on an
\* undefined extent
RECURSIVE ComputeZoomGrid(_, _, _, _, _)
ComputeZoomGrid(cache, z, extent, points, radius) ==
    IF NoGrid(extent)
    THEN [cache |-> cache, result |-> NullResult, trace |-> <<z>>,
          threw |-> FALSE]
    ELSE LET rec == ComputeZoomGrid(cache, z - 1, extent, points, radius)
             deeper == NeedsCoarser(cache, z)
             cache1 == IF deeper
                       THEN [rec.cache EXCEPT ![z - 1] = rec.result]
                       ELSE cache
             preCache == CacheGet(cache1, z - 1)
             grids == BucketPoints(points, 1, <<>>, extent,
                                   CellSize(z, radius), PreT(z, radius), preCache)
         IN  [cache |-> cache1,
              result |-> MergeClusters(grids, CellSize(z, radius)),
              trace |-> <<z>> \o (IF deeper THEN rec.trace ELSE <<>>),
              threw |-> ~extent.def \/ (deeper /\ rec.threw)]

\* ----------------------------------------------------------- _computeGrid
\* the level next to z on the coarser side
PreLevel(z) ==
    IF /\ HasResolution(MinZoom)
       /\ HasResolution(MaxZoom)
       /\ Resolution(MinZoom) > Resolution(MaxZoom)
    THEN z - 1 ELSE z + 1

\* this._clusterCache[pre].length: a {clusters, clusterMap} object has no
\* property 'length', so the read yields undefined
ResultLength(e) == [def |-> FALSE, v |-> 0]

\* this._clusterCache[pre] && this._clusterCache[pre].length === getCount()
ReuseAdjacent(e, count) ==
    IsResult(e) /\ ResultLength(e).def /\ ResultLength(e).v = count

\* a test that takes every level to be missing from the cache
NotCachedEver(e) == TRUE

\* !this._clusterCache[zoom]: the entry is undefined or null
NotCached(e) == ~IsResult(e)

\* _computeGrid() at zoom z: the renderer's fields afterwards, and the levels
\* _computeZoomGrid was run for
ComputeGrid(list, z, extent, points, cache, radius) ==
    LET grid == IF ~extent.def THEN InitGridSystem(list)
                ELSE [extent |-> extent, points |-> points]
        cache0 == IF cache.def THEN cache.at ELSE EmptyCache
        cache1 == IF ReuseAdjacent(CacheGet(cache0, PreLevel(z)), Len(list))
                  THEN [cache0 EXCEPT ![z] = CacheGet(cache0, PreLevel(z))]
                  ELSE cache0
        run == NotCached(cache1[z])
        res == ComputeZoomGrid(cache1, z, grid.extent, grid.points, radius)
    IN  [extent |-> grid.extent,
         points |-> grid.points,
         cache |-> [def |-> TRUE,
                    at |-> IF run THEN [res.cache EXCEPT ![z] = res.result]
                           ELSE cache1],
         computed |-> IF run THEN res.trace ELSE <<>>,
         threw |-> run /\ res.threw]

\* ----------------------------------------------------- _getClustersToDraw
\* a test of the count alone, whatever the option says
IsSingleMarkerAlways(c, noCluster) == c.count = 1

\* count === 1 && options['noClusterWithOneMarker']
IsSingleMarker(c, noCluster) == c.count = 1 /\ noCluster

\* the clusters to draw and the markers drawn in place of their clusters;
\* every cluster is taken to intersect the container extent
GetClustersToDraw(zoomClusters, noCluster) ==
    [clusters |-> SelectSeq(zoomClusters, LAMBDA c : ~IsSingleMarker(c, noCluster)),
     markers |-> LET single == SelectSeq(zoomClusters,
                                   LAMBDA c : IsSingleMarker(c, noCluster))
                 IN  [i \in 1..Len(single) |-> single[i].children[1]]]

\* this._clusterCache[zoom] ? this._clusterCache[zoom]['clusters'] : null;
\* for..in over null visits nothing
ZoomClusters(entry) == IF IsResult(entry) THEN entry.clusters ELSE <<>>

\* ---------------------------------------------------------------- state
Undefined == [def |-> FALSE, list |-> <<>>]
Defined(l) == [def |-> TRUE, list |-> l]

NoCache == [def |-> FALSE, at |-> EmptyCache]

\* the positions a marker of Spec takes: on the x axis
Positions(n) == (0..n) \X {0}

\* a geometry of the layer: its projected coordinate, whether it is shown,
\* its class, and the value of the one property the model gives it (0 when
\* it has none)
Geometry(id, pos, vis, type, prop) ==
    [id |-> id, x |-> pos[1], y |-> pos[2], visible |-> vis, type |-> type,
     prop |-> prop]

Marker(id, pos, vis) == Geometry(id, pos, vis, "Marker", 0)

Ids(list) == {list[i].id : i \in 1..Len(list)}

\* no identify has returned since the last handler that changed the state
NotAsked == [kind |-> "none"]

\* the renderer as its constructor leaves it
NewRenderer ==
    /\ clusterNeedRedraw = TRUE
    /\ markerExtent = NoExtent
    /\ markerPoints = <<>>
    /\ clusterCache = NoCache
    /\ currentClusters = Undefined
    /\ markersToDraw = Undefined
    /\ error = "none"
    /\ pending = 0
    /\ identified = NotAsked
    /\ last = [op |-> "new", computed |-> <<>>]

Init ==
    /\ geoList = <<>>
    /\ layerVisible = TRUE
    /\ maxClusterRadius = DefaultMaxClusterRadius
    /\ maxClusterZoom \in {0, MaxZoom - 1}
    /\ noClusterWithOneMarker = TRUE
    /\ textSumProperty = FALSE
    /\ resolutions = Levels
    /\ zoom \in Levels
    /\ NewRenderer

\* --------------------------------------------------------------- handlers
\* a geometry handler that leaves the flag as it is
MarkRedrawForgotten(op) ==
    /\ pending < MaxPending
    /\ pending' = pending + 1
    /\ last' = [op |-> op, computed |-> <<>>]
    /\ UNCHANGED <<layerVisible, maxClusterRadius, maxClusterZoom,
                   noClusterWithOneMarker, textSumProperty, resolutions, zoom,
                   clusterNeedRedraw, markerExtent, markerPoints, clusterCache,
                   currentClusters, markersToDraw, error>>
    /\ identified' = NotAsked

\* every geometry handler of the renderer sets the flag and nothing else
MarkRedraw(op) ==
    /\ pending < MaxPending
    /\ pending' = pending + 1
    /\ clusterNeedRedraw' = TRUE
    /\ last' = [op |-> op, computed |-> <<>>]
    /\ UNCHANGED <<layerVisible, maxClusterRadius, maxClusterZoom,
                   noClusterWithOneMarker, textSumProperty, resolutions, zoom,
                   markerExtent, markerPoints, clusterCache, currentClusters,
                   markersToDraw, error>>
    /\ identified' = NotAsked

\* layer.addGeometry([marker]) and the renderer's onGeometryAdd
AddMarker ==
    /\ error = "none"
    /\ Len(geoList) < MaxMarkers
    /\ \E pos \in Positions(MaxLifeC) :
          LET id == SetMin((1..MaxMarkers) \ Ids(geoList))
          IN  geoList' = Append(geoList, Marker(id, pos, TRUE))
    /\ MarkRedraw("onGeometryAdd")

\* marker.remove() and onGeometryRemove
RemoveMarker ==
    /\ error = "none"
    /\ \E i \in 1..Len(geoList) :
          geoList' = SelectSeq(geoList, LAMBDA g : g.id # geoList[i].id)
    /\ MarkRedraw("onGeometryRemove")

\* marker.show() and onGeometryShow
ShowMarker ==
    /\ error = "none"
    /\ \E i \in 1..Len(geoList) :
          /\ ~geoList[i].visible
          /\ geoList' = [geoList EXCEPT ![i].visible = TRUE]
    /\ MarkRedraw("onGeometryShow")

\* marker.hide() and onGeometryHide
HideMarker ==
    /\ error = "none"
    /\ \E i \in 1..Len(geoList) :
          /\ geoList[i].visible
          /\ geoList' = [geoList EXCEPT ![i].visible = FALSE]
    /\ MarkRedraw("onGeometryHide")

\* marker.setCoordinates(pos) and onGeometryPositionChange
MoveMarker ==
    /\ error = "none"
    /\ \E i \in 1..Len(geoList), pos \in Positions(MaxLifeC) :
          /\ pos # <<geoList[i].x, geoList[i].y>>
          /\ geoList' = [geoList EXCEPT ![i].x = pos[1], ![i].y = pos[2]]
    /\ MarkRedraw("onGeometryPositionChange")

\* layer.hide() / layer.show()
HideLayer ==
    /\ error = "none"
    /\ layerVisible
    /\ layerVisible' = FALSE
    /\ last' = [op |-> "hide", computed |-> <<>>]
    /\ UNCHANGED <<geoList, maxClusterRadius, maxClusterZoom,
                   noClusterWithOneMarker, textSumProperty, resolutions, zoom,
                   clusterNeedRedraw, markerExtent, markerPoints, clusterCache,
                   currentClusters, markersToDraw, error, pending>>
    /\ identified' = NotAsked

ShowLayer ==
    /\ error = "none"
    /\ ~layerVisible
    /\ layerVisible' = TRUE
    /\ last' = [op |-> "show", computed |-> <<>>]
    /\ UNCHANGED <<geoList, maxClusterRadius, maxClusterZoom,
                   noClusterWithOneMarker, textSumProperty, resolutions, zoom,
                   clusterNeedRedraw, markerExtent, markerPoints, clusterCache,
                   currentClusters, markersToDraw, error, pending>>
    /\ identified' = NotAsked

\* the renderer's fields after _computeGrid() at zoom z
RunComputeGrid(op, z) ==
    LET got == ComputeGrid(geoList, z, markerExtent, markerPoints,
                           clusterCache, maxClusterRadius)
    IN  /\ markerExtent' = got.extent
        /\ markerPoints' = got.points
        /\ clusterCache' = got.cache
        /\ error' = IF got.threw THEN "TypeError" ELSE "none"
        /\ last' = [op |-> op, computed |-> got.computed]

\* layer.isEmpty() || !layer.isVisible()
SkipZoomEnd == Len(geoList) = 0 \/ ~layerVisible

\* the map ends a zoom to level 'to' and calls onZoomEnd
ZoomEnd ==
    /\ error = "none"
    /\ \E to \in Levels \ {zoom} :
          /\ zoom' = to
          /\ IF SkipZoomEnd
             THEN /\ last' = [op |-> "onZoomEnd", computed |-> <<>>]
                  /\ UNCHANGED <<markerExtent, markerPoints, clusterCache,
                                 error>>
             ELSE RunComputeGrid("onZoomEnd", to)
    /\ UNCHANGED <<geoList, layerVisible, maxClusterRadius, maxClusterZoom,
                   noClusterWithOneMarker, textSumProperty, resolutions,
                   clusterNeedRedraw, currentClusters, markersToDraw,
                   pending>>
    /\ identified' = NotAsked

\* onSymbolChanged
SymbolChanged ==
    /\ error = "none"
    /\ RunComputeGrid("onSymbolChanged", zoom)
    /\ UNCHANGED <<geoList, layerVisible, maxClusterRadius, maxClusterZoom,
                   noClusterWithOneMarker, textSumProperty, resolutions, zoom,
                   clusterNeedRedraw, currentClusters, markersToDraw,
                   pending>>
    /\ identified' = NotAsked

\* a draw that takes no zoom to lie above maxClusterZoom
AboveNever == FALSE

\* maxClusterZoom && zoom > maxClusterZoom
AboveMaxClusterZoom == maxClusterZoom # 0 /\ zoom > maxClusterZoom

\* the branch of draw() that draws the markers and no cluster
DrawMarkersOnly(list) ==
    /\ currentClusters' = Undefined
    /\ markersToDraw' = Defined([i \in 1..Len(list) |-> list[i].id])
    /\ last' = [op |-> "draw", computed |-> <<>>]
    /\ UNCHANGED <<clusterNeedRedraw, markerExtent, markerPoints,
                   clusterCache, error, pending>>

\* the rest of draw(): rebuild when flagged, then draw the level's clusters;
\* list and radius are layer._geoList and options['maxClusterRadius'] as the
\* draw finds them
DrawClusters(list, radius) ==
    LET got == IF clusterNeedRedraw
               THEN ComputeGrid(list, zoom, NoExtent, <<>>, NoCache, radius)
               ELSE [extent |-> markerExtent, points |-> markerPoints,
                     cache |-> clusterCache, computed |-> <<>>,
                     threw |-> FALSE]
        toDraw == GetClustersToDraw(ZoomClusters(got.cache.at[zoom]),
                                    noClusterWithOneMarker)
    IN  /\ markerExtent' = got.extent
        /\ markerPoints' = got.points
        /\ clusterCache' = got.cache
        /\ clusterNeedRedraw' = FALSE
        /\ pending' = 0
        /\ last' = [op |-> "draw", computed |-> got.computed]
        /\ IF got.cache.def /\ ~got.threw
           THEN /\ currentClusters' = Defined(toDraw.clusters)
                /\ markersToDraw' = Defined(toDraw.markers)
                /\ error' = "none"
           ELSE \* _computeGrid threw, or this._clusterCache[zoom] is read on
                \* an undefined _clusterCache
                /\ error' = "TypeError"
                /\ UNCHANGED <<currentClusters, markersToDraw>>

\* draw() on a layer whose list and radius are these
Render(list, radius) ==
    IF AboveMaxClusterZoom THEN DrawMarkersOnly(list)
    ELSE DrawClusters(list, radius)

\* the renderer's draw(), which the map calls for a visible layer
Draw ==
    /\ error = "none"
    /\ layerVisible
    /\ Render(geoList, maxClusterRadius)
    /\ UNCHANGED <<geoList, layerVisible, maxClusterRadius, maxClusterZoom,
                   noClusterWithOneMarker, textSumProperty, resolutions, zoom>>
    /\ identified' = NotAsked

Next ==
    \/ AddMarker
    \/ RemoveMarker
    \/ ShowMarker
    \/ HideMarker
    \/ MoveMarker
    \/ HideLayer
    \/ ShowLayer
    \/ ZoomEnd
    \/ SymbolChanged
    \/ Draw

Spec == Init /\ [][Next]_vars

\* ------------------------------------------------ the clustering alone
\* A layer drawn from two families: up to MaxPts visible markers anywhere on
\* the (0..MaxC) square, and up to MaxLinePts markers, at most MaxHidden of
\* them hidden, on the x axis up to MaxLine.  A third family gives up to
\* MaxWPts markers on the x axis a property of value up to MaxWeight (0: the
\* marker has no such property), for a layer with and without a
\* textSumProperty.  The renderer draws the layer at the finest zoom, which
\* computes every level.
LayerOf(n, at, vis) == [i \in 1..n |-> Marker(i, at[i], vis[i])]

Shown(n) == [i \in 1..n |-> TRUE]

Visibilities(n) ==
    {vis \in [1..n -> BOOLEAN] :
        Cardinality({i \in 1..n : ~vis[i]}) <= MaxHidden}

GridLayers ==
    UNION {{LayerOf(n, at, Shown(n)) : at \in [1..n -> (0..MaxC) \X (0..MaxC)]} :
              n \in 1..MaxPts}
    \cup UNION {{LayerOf(n, at, vis) : at \in [1..n -> (0..MaxLine) \X {0}],
                                       vis \in Visibilities(n)} :
                   n \in 1..MaxLinePts}

WeightedLayers ==
    UNION {{[i \in 1..n |-> Geometry(i, at[i], TRUE, "Marker", w[i])] :
               at \in [1..n -> (0..MaxLine) \X {0}],
               w \in [1..n -> 0..MaxWeight]} :
              n \in 1..MaxWPts}

InitGrid ==
    /\ \/ geoList \in GridLayers /\ textSumProperty = FALSE
       \/ geoList \in WeightedLayers /\ textSumProperty \in BOOLEAN
    /\ layerVisible = TRUE
    /\ maxClusterRadius = DefaultMaxClusterRadius
    /\ maxClusterZoom = 0
    /\ noClusterWithOneMarker = TRUE
    /\ resolutions = Levels
    /\ zoom = MaxZoom
    /\ NewRenderer

NextGrid == Draw

SpecGrid == InitGrid /\ [][NextGrid]_vars

\* ------------------------------------------------ the layer's interface
\* The layer as its user drives it: geometries are added in lists, the
\* cluster radius is configured, the map draws the layer and the user asks
\* what lies at a coordinate.  A geometry is a marker on the x axis, a
\* marker whose x is not a finite number, or a circle of radius 0, which is
\* no Marker and whose coordinate and extent are its centre.
ApiShapes ==
    {[pos |-> <<x, 0>>, type |-> "Marker"] : x \in 0..MaxApiC}
    \cup {[pos |-> <<NaN, 0>>, type |-> "Marker"],
          [pos |-> <<MaxApiC, 0>>, type |-> "Circle"]}

\* the operand of instanceof in !markers[i] instanceof maptalks.Marker: the
\* negation binds first, so it is the boolean !markers[i], for a geometry as
\* for the undefined markers[len] that i <= len reaches
NegationOf(v) == [type |-> "boolean"]

\* v instanceof maptalks.Marker
InstanceOfMarker(v) == v.type = "Marker"

\* the loop of addGeometry throws at some i
AddGeometryThrows(markers) ==
    \/ \E i \in 1..Len(markers) : InstanceOfMarker(NegationOf(markers[i]))
    \/ InstanceOfMarker(NegationOf([type |-> "undefined"]))

\* layer.addGeometry(markers), or addMarker, with a list of geometries
AddGeometry ==
    /\ error = "none"
    /\ \E n \in 1..MaxAdd : \E shapes \in [1..n -> ApiShapes] :
          /\ Len(geoList) + n <= MaxGeos
          /\ IF AddGeometryThrows(shapes)
             THEN /\ error' = "Only a point(Marker) can be added into a ClusterLayer"
                  /\ last' = [op |-> "addGeometry", computed |-> <<>>]
                  /\ identified' = NotAsked
                  /\ UNCHANGED <<geoList, layerVisible, maxClusterRadius,
                                 maxClusterZoom, noClusterWithOneMarker,
                                 textSumProperty, resolutions, zoom,
                                 clusterNeedRedraw, markerExtent, markerPoints,
                                 clusterCache, currentClusters, markersToDraw,
                                 pending>>
             ELSE /\ geoList' = geoList \o
                        [i \in 1..n |-> Geometry(Len(geoList) + i, shapes[i].pos,
                                                 TRUE, shapes[i].type, 0)]
                  /\ MarkRedraw("onGeometryAdd")

\* layer.config('maxClusterRadius', r): onConfig has the renderer render,
\* which draws the visible layer
Config ==
    /\ error = "none"
    /\ layerVisible
    /\ \E r \in (1..MaxRadius) \ {maxClusterRadius} :
          /\ maxClusterRadius' = r
          /\ Render(geoList, r)
    /\ identified' = NotAsked
    /\ UNCHANGED <<geoList, layerVisible, maxClusterZoom,
                   noClusterWithOneMarker, textSumProperty, resolutions, zoom>>

\* point.distanceTo(pt) <= markerWidth for the cluster c, the coordinate q
\* and a sprite w2 / 2 wide: both points are container points, a projected
\* coordinate divided by the zoom's resolution
HitsCluster(c, q, w2) ==
    LET dx == c.center.x - q[1] * c.center.d
        dy == c.center.y - q[2] * c.center.d
        reach == w2 * Resolution(zoom) * c.center.d
    IN  /\ NaN \notin {c.center.x, c.center.y, Resolution(zoom)}
        /\ 4 * (dx * dx + dy * dy) <= reach * reach

\* a scan that returns the last cluster that is hit
LastHit(clusters, from, q, w2) ==
    LET hits == {i \in from..Len(clusters) : HitsCluster(clusters[i], q, w2)}
    IN  IF hits = {} THEN 0 ELSE CHOOSE i \in hits : \A j \in hits : j <= i

\* the first i from 'from' on whose cluster is hit (0 when none is)
RECURSIVE FirstHit(_, _, _, _)
FirstHit(clusters, from, q, w2) ==
    IF from > Len(clusters) THEN 0
    ELSE IF HitsCluster(clusters[from], q, w2) THEN from
    ELSE FirstHit(clusters, from + 1, q, w2)

\* the renderer's identify(coordinate): the cluster it returns (its centre,
\* which the host's projection converts back, and a copy of its children),
\* or the hit test of the layer on the markers to draw, which is the host's
RendererIdentify(q, w2) ==
    LET hit == IF currentClusters.def
               THEN FirstHit(currentClusters.list, 1, q, w2) ELSE 0
    IN  IF AboveMaxClusterZoom THEN [kind |-> "layer"]
        ELSE IF hit # 0
        THEN [kind |-> "cluster", at |-> hit,
              center |-> currentClusters.list[hit].center,
              children |-> currentClusters.list[hit].children]
        ELSE IF markersToDraw.def
        THEN [kind |-> "markers", of |-> markersToDraw.list]
        ELSE [kind |-> "null"]

\* layer.identify(coordinate) on a layer that has its renderer, with the
\* sprite of the layer's symbol w2 / 2 wide
Identify ==
    /\ error = "none"
    /\ \E x \in 0..MaxApiC, w2 \in 1..MaxWidth :
          identified' = [kind |-> "asked", q |-> <<x, 0>>, w2 |-> w2,
                         got |-> RendererIdentify(<<x, 0>>, w2)]
    /\ last' = [op |-> "identify", computed |-> <<>>]
    /\ UNCHANGED <<geoList, layerVisible, maxClusterRadius, maxClusterZoom,
                   noClusterWithOneMarker, textSumProperty, resolutions, zoom,
                   clusterNeedRedraw, markerExtent, markerPoints, clusterCache,
                   currentClusters, markersToDraw, error, pending>>

InitApi ==
    /\ geoList = <<>>
    /\ layerVisible = TRUE
    /\ maxClusterRadius = DefaultMaxClusterRadius
    /\ maxClusterZoom = 0
    /\ noClusterWithOneMarker \in BOOLEAN
    /\ textSumProperty = FALSE
    /\ resolutions = Levels
    /\ zoom = MaxZoom - 1
    /\ NewRenderer

NextApi ==
    \/ AddGeometry
    \/ Config
    \/ Draw
    \/ Identify

SpecApi == InitApi /\ [][NextApi]_vars

\* ------------------------------------------------- a host short of a level
\* A layer of up to MaxHostPts markers on a map whose _getResolution has
\* nothing to return for one level of its zoom range, the case the test of
\* map._getResolution(zoom - 1) in _computeZoomGrid provides for.
HostLayers ==
    UNION {{LayerOf(n, at, Shown(n)) : at \in [1..n -> (0..MaxLine) \X {0}]} :
              n \in 0..MaxHostPts}

HostResolutions == {Levels} \cup {Levels \ {z} : z \in Levels}

InitHost ==
    /\ geoList \in HostLayers
    /\ layerVisible = TRUE
    /\ maxClusterRadius = DefaultMaxClusterRadius
    /\ maxClusterZoom = 0
    /\ noClusterWithOneMarker = TRUE
    /\ textSumProperty = FALSE
    /\ resolutions \in HostResolutions
    /\ zoom \in Levels
    /\ NewRenderer

NextHost ==
    \/ Draw
    \/ ZoomEnd

SpecHost == InitHost /\ [][NextHost]_vars

\* ================================================================ claims
\* the levels that hold a {clusters, clusterMap} result
ResultLevels ==
    {z \in Levels : clusterCache.def /\ IsResult(clusterCache.at[z])}

ResultAt(z) == clusterCache.at[z]

PointIds == {markerPoints[i].id : i \in 1..Len(markerPoints)}

\* the indexed point with this id
PointOf(id) ==
    markerPoints[CHOOSE i \in 1..Len(markerPoints) : markerPoints[i].id = id]

Counts(r) == [i \in 1..Len(r.clusters) |-> r.clusters[i].count]

ChildrenOf(r) == Flatten([i \in 1..Len(r.clusters) |-> r.clusters[i].children])

ClusterKeys(r) == {r.clusters[i].key : i \in 1..Len(r.clusters)}

\* the cell of each indexed point at level z, by the bucketing formula
PointCell(p, z) ==
    CellKey(p.x, p.y, markerExtent, CellSize(z, maxClusterRadius))

CellKeys(z) == {PointCell(markerPoints[i], z) : i \in 1..Len(markerPoints)}

\* a level of the cache in which some cell was absorbed by another
HasAbsorbed(z) ==
    z \in ResultLevels /\ \E k \in DOMAIN ResultAt(z).clusterMap :
                              ResultAt(z).clusterMap[k] # k

\* C1: in every level result the counts of the surviving clusters add up to
\* the number of indexed points and every count is at least 1; the indexed
\* points are the layer's visible markers, as they were when the index was
\* built.
C1_Conservation ==
    /\ \A z \in ResultLevels :
          /\ SumSeq(Counts(ResultAt(z))) = Len(markerPoints)
          /\ \A i \in 1..Len(ResultAt(z).clusters) :
                ResultAt(z).clusters[i].count >= 1
    /\ ~clusterNeedRedraw =>
          /\ PointIds = {geoList[i].id : i \in {j \in 1..Len(geoList) :
                                                  geoList[j].visible}}
          /\ Len(markerPoints) = Cardinality(PointIds)

\* a level with an absorbed cell, computed for a layer with a hidden marker
C1_Witness ==
    /\ \E z \in Levels : HasAbsorbed(z)
    /\ \E i \in 1..Len(geoList) : ~geoList[i].visible

\* C2: in every level result the children lists of the surviving clusters
\* hold every indexed point exactly once.
C2_Partition ==
    \A z \in ResultLevels :
       LET all == ChildrenOf(ResultAt(z))
       IN  /\ Len(all) = Len(markerPoints)
           /\ Range(all) = PointIds
           /\ \A i, j \in 1..Len(all) : all[i] = all[j] => i = j

\* the cells of level z before the merge (their parents left out)
CellsBeforeMerge(z) ==
    BucketPoints(markerPoints, 1, <<>>, markerExtent,
                 CellSize(z, maxClusterRadius), [def |-> FALSE, v |-> 0],
                 NullResult)

\* a level where an absorbed cell was within the merge radius of two cells
\* that both survived
C2_Witness ==
    \E z \in ResultLevels :
       LET grids == CellsBeforeMerge(z)
           r2 == CellSize(z, maxClusterRadius)
           alive == ClusterKeys(ResultAt(z))
       IN  \E a, b, c \in 1..Len(grids) :
              /\ a # c
              /\ grids[a].key \in alive
              /\ grids[c].key \in alive
              /\ grids[b].key \notin alive
              /\ ShouldMerge(grids, grids[a], grids[b].key, r2)
              /\ ShouldMerge(grids, grids[c], grids[b].key, r2)

\* the coordinate sum of the indexed points with these ids
RECURSIVE SumOfPoints(_)
SumOfPoints(ids) ==
    IF Len(ids) = 0 THEN <<0, 0>>
    ELSE LET p == PointOf(Head(ids))
             rest == SumOfPoints(Tail(ids))
         IN  <<p.x + rest[1], p.y + rest[2]>>

\* C3: the centre of every surviving cluster is the mean of the points in
\* its children list (centre * count = the sum of their coordinates), and
\* its sum is that sum.
C3_Centroid ==
    \A z \in ResultLevels :
       \A i \in 1..Len(ResultAt(z).clusters) :
          LET c == ResultAt(z).clusters[i]
              total == SumOfPoints(c.children)
          IN  /\ c.sum = total
              /\ c.count = Len(c.children)
              /\ c.center.d > 0
              /\ c.center.x * c.count = total[1] * c.center.d
              /\ c.center.y * c.count = total[2] * c.center.d

\* a level with a cluster that absorbed a neighbour and one that holds
\* several points without having absorbed any
C3_Witness ==
    \E z \in ResultLevels :
       \E i, j \in 1..Len(ResultAt(z).clusters) :
          LET c == ResultAt(z).clusters[i]
              d == ResultAt(z).clusters[j]
              m == ResultAt(z).clusterMap
          IN  /\ \E k \in DOMAIN m : k # c.key /\ m[k] = c.key
              /\ d.count > 1
              /\ \A k \in DOMAIN m : m[k] = d.key => k = d.key

\* C4: clusterMap has an entry for every cell the points fall in, every
\* entry names a surviving cluster, a surviving key names its own cluster,
\* and the cluster named for a cell holds the points of that cell.
C4_ClusterMap ==
    \A z \in ResultLevels :
       LET r == ResultAt(z)
       IN  /\ DOMAIN r.clusterMap = CellKeys(z)
           /\ ClusterKeys(r) \subseteq DOMAIN r.clusterMap
           /\ \A k \in DOMAIN r.clusterMap : r.clusterMap[k] \in ClusterKeys(r)
           /\ \A k \in ClusterKeys(r) : r.clusterMap[k] = k
           /\ \A n \in 1..Len(markerPoints) :
                 LET to == r.clusterMap[PointCell(markerPoints[n], z)]
                     at == IndexOfKey(r.clusters, to)
                 IN  at # 0 /\ markerPoints[n].id \in Range(r.clusters[at].children)

\* a level where two cells were absorbed
C4_Witness ==
    \E z \in ResultLevels :
       Cardinality({k \in DOMAIN ResultAt(z).clusterMap :
                       ResultAt(z).clusterMap[k] # k}) >= 2

\* the cell that the final centre of the cluster c falls in under the cell
\* size of the level above level z, by the bucketing formula
CenterCell(c, z) ==
    LET preT == CellSize(z - 1, maxClusterRadius)
    IN  <<(c.center.x - markerExtent.minx * c.center.d) \div (preT * c.center.d),
          (c.center.y - markerExtent.miny * c.center.d) \div (preT * c.center.d)>>

\* C7: every surviving cluster of a level computed over a cached coarser
\* level has as parent the coarser level's clusterMap entry for the cell its
\* final centre falls in; a cluster of a level computed over no coarser
\* result has no parent.
C7_ParentByCenter ==
    \A z \in ResultLevels :
       \A i \in 1..Len(ResultAt(z).clusters) :
          LET c == ResultAt(z).clusters[i]
          IN  IF (z - 1) \in ResultLevels
              THEN LET m == ResultAt(z - 1).clusterMap
                       pkey == CenterCell(c, z)
                   IN  c.parent = IF pkey \in DOMAIN m
                                  THEN [def |-> TRUE, key |-> m[pkey]]
                                  ELSE NoParent
              ELSE c.parent = NoParent

\* the squared distance of the two indexed points, when there are two
Dist2 ==
    (markerPoints[1].x - markerPoints[2].x) * (markerPoints[1].x - markerPoints[2].x)
    + (markerPoints[1].y - markerPoints[2].y) * (markerPoints[1].y - markerPoints[2].y)

OneClusterOfTwo(r) == Len(r.clusters) = 1 /\ r.clusters[1].count = 2

TwoSingletons(r) ==
    Len(r.clusters) = 2 /\ r.clusters[1].count = 1 /\ r.clusters[2].count = 1

\* the two points are mergeRadius = cell size / 2 apart / farther apart
AtMergeRadius(z) ==
    4 * Dist2 = CellSize(z, maxClusterRadius) * CellSize(z, maxClusterRadius)

BeyondMergeRadius(z) ==
    4 * Dist2 > CellSize(z, maxClusterRadius) * CellSize(z, maxClusterRadius)

SameCell(z) == PointCell(markerPoints[1], z) = PointCell(markerPoints[2], z)

\* C9 as claimed: two indexed points at exactly the merge radius form one
\* cluster of count 2, and two points farther apart than the merge radius
\* form two clusters of count 1, wherever they lie.
C9_ThresholdAnywhere ==
    Len(markerPoints) = 2 =>
       \A z \in ResultLevels :
          /\ AtMergeRadius(z) => OneClusterOfTwo(ResultAt(z))
          /\ BeyondMergeRadius(z) => TwoSingletons(ResultAt(z))

\* C9 amended: two indexed points at exactly the merge radius form one
\* cluster of count 2; two points farther apart than the merge radius form
\* two clusters of count 1 when they fall in different cells, and one
\* cluster of count 2 when they fall in the same cell.
C9_ThresholdByCell ==
    Len(markerPoints) = 2 =>
       \A z \in ResultLevels :
          /\ AtMergeRadius(z) => OneClusterOfTwo(ResultAt(z))
          /\ BeyondMergeRadius(z) /\ ~SameCell(z) => TwoSingletons(ResultAt(z))
          /\ BeyondMergeRadius(z) /\ SameCell(z) => OneClusterOfTwo(ResultAt(z))

\* two indexed points that are at the merge radius of one computed level and
\* beyond the merge radius, in different cells, of another
C9_Witness ==
    /\ Len(markerPoints) = 2
    /\ \E z \in ResultLevels : AtMergeRadius(z)
    /\ \E z \in ResultLevels : BeyondMergeRadius(z) /\ ~SameCell(z)

\* ------------------------------------------------------------ the cache
VisibleIds == {geoList[i].id : i \in {j \in 1..Len(geoList) : geoList[j].visible}}

\* the marker of the layer with this id
GeoOf(id) == geoList[CHOOSE i \in 1..Len(geoList) : geoList[i].id = id]

RECURSIVE SumOfGeos(_)
SumOfGeos(ids) ==
    IF Len(ids) = 0 THEN <<0, 0>>
    ELSE LET g == GeoOf(Head(ids))
             rest == SumOfGeos(Tail(ids))
         IN  <<g.x + rest[1], g.y + rest[2]>>

\* a level result that was computed from the layer's point set as it is
\* now: its clusters hold the visible markers, at their present coordinates
IsCurrent(r) ==
    /\ Range(ChildrenOf(r)) = VisibleIds
    /\ \A i \in 1..Len(r.clusters) :
          r.clusters[i].sum = SumOfGeos(r.clusters[i].children)

\* C5 as claimed: no level result computed from a point set that has since
\* changed remains in the cache.
C5_NoStaleResult == \A z \in ResultLevels : IsCurrent(ResultAt(z))

\* C5 amended: a change of the point set sets _clusterNeedRedraw and leaves
\* the cache as it is; the next draw of the clusters clears it.  So whenever
\* _clusterNeedRedraw is false, and so after every draw of the clusters, every
\* level of the cache was computed from the point set as it is now.
C5_FreshUnlessFlagged ==
    ~clusterNeedRedraw =>
       /\ clusterCache.def
       /\ \A z \in ResultLevels : IsCurrent(ResultAt(z))
       /\ \A z \in Levels : clusterCache.at[z] = NullResult => VisibleIds = {}
       /\ PointIds = VisibleIds

\* a draw of the clusters that rebuilt two levels for a layer with a hidden
\* and a visible marker
C5_Witness ==
    /\ ~clusterNeedRedraw
    /\ last.op = "draw"
    /\ Len(last.computed) >= 2
    /\ \E i \in 1..Len(geoList) : ~geoList[i].visible
    /\ VisibleIds # {}

\* the handlers that run _computeGrid, and whether the last one did
RanComputeGrid ==
    \/ last.op = "onSymbolChanged"
    \/ last.op = "onZoomEnd" /\ ~SkipZoomEnd
    \/ last.op = "draw" /\ ~AboveMaxClusterZoom /\ Len(last.computed) > 0

\* C6: when _computeGrid runs for a zoom whose adjacent coarser level is
\* cached with as many clusters as the layer has geometries, the zoom's
\* entry is that same result and _computeZoomGrid is not run for the zoom.
\* (The coarser level was cached before the call when the call did not
\* compute it.)
C6_ReuseAdjacent ==
    (/\ last.op \in {"onZoomEnd", "onSymbolChanged"}
     /\ RanComputeGrid
     /\ PreLevel(zoom) \in ResultLevels
     /\ PreLevel(zoom) \notin Range(last.computed)
     /\ Len(ResultAt(PreLevel(zoom)).clusters) = Len(geoList))
    => /\ clusterCache.at[zoom] = ResultAt(PreLevel(zoom))
       /\ zoom \notin Range(last.computed)

\* C8: after _computeGrid ran at the current zoom with a non-empty index,
\* every level from the minimum level to the zoom holds a result, and
\* _computeZoomGrid was run for consecutive descending levels, none below
\* the minimum level.
C8_FillsDownToMin ==
    (RanComputeGrid /\ markerExtent.def) =>
       /\ \A z \in MinZoom..zoom : z \in ResultLevels
       /\ \A i \in 1..Len(last.computed) :
             /\ last.computed[i] = zoom - (i - 1)
             /\ last.computed[i] >= MinZoom

\* a zoom end that found a coarser level cached and computed two levels
C8_Witness ==
    /\ last.op = "onZoomEnd"
    /\ markerExtent.def
    /\ Len(last.computed) = 2
    /\ zoom = MaxZoom

LevelClusters == ZoomClusters(CacheGet(clusterCache.at, zoom))

\* the last handler was a draw that drew clusters
DrewClusters == last.op = "draw" /\ ~AboveMaxClusterZoom /\ error = "none"

Apart(c, q) ==
    4 * ((c.center.x - q[1] * c.center.d) * (c.center.x - q[1] * c.center.d)
         + (c.center.y - q[2] * c.center.d) * (c.center.y - q[2] * c.center.d))

\* the centre of c is within the hit radius w2 / 2 of q, boundary included
WithinHitRadius(c, q, w2) ==
    /\ c.center.x # NaN
    /\ Apart(c, q) <= (w2 * Resolution(zoom) * c.center.d)
                         * (w2 * Resolution(zoom) * c.center.d)

\* the a-th cluster is strictly nearer to q than the b-th
Nearer(a, b, q) ==
    LET ca == currentClusters.list[a]
        cb == currentClusters.list[b]
    IN  Apart(ca, q) * cb.center.d * cb.center.d
           < Apart(cb, q) * ca.center.d * ca.center.d

\* C12: identify at a clustering level returns the first of the current
\* clusters, in their stored order, whose centre is within the hit radius
\* of the coordinate, boundary included, with that cluster's children; when
\* none is, it returns no cluster but what the hit test of the markers to
\* draw yields (null when no draw has set them), and throws nothing.
C12_FirstMatch ==
    (identified.kind = "asked" /\ ~AboveMaxClusterZoom) =>
       LET q == identified.q
           w2 == identified.w2
           hits == {i \in 1..Len(currentClusters.list) :
                       WithinHitRadius(currentClusters.list[i], q, w2)}
       IN  /\ error = "none"
           /\ IF hits = {}
              THEN identified.got =
                      IF markersToDraw.def
                      THEN [kind |-> "markers", of |-> markersToDraw.list]
                      ELSE [kind |-> "null"]
              ELSE /\ identified.got.kind = "cluster"
                   /\ identified.got.at = SetMin(hits)
                   /\ identified.got.center
                         = currentClusters.list[SetMin(hits)].center
                   /\ identified.got.children
                         = currentClusters.list[SetMin(hits)].children

\* an identify that returned a cluster exactly at the hit radius while a
\* later cluster was strictly nearer
C12_Witness ==
    /\ identified.kind = "asked"
    /\ identified.got.kind = "cluster"
    /\ LET c == currentClusters.list[identified.got.at]
           reach == identified.w2 * Resolution(zoom) * c.center.d
       IN  Apart(c, identified.q) = reach * reach
    /\ \E j \in (identified.got.at + 1)..Len(currentClusters.list) :
          Nearer(j, identified.got.at, identified.q)

\* ------------------------------------------------------------ weights
\* the sum of the property over the indexed points with these ids
RECURSIVE SumOfProps(_)
SumOfProps(ids) ==
    IF Len(ids) = 0 THEN 0
    ELSE PointOf(Head(ids)).prop + SumOfProps(Tail(ids))

\* C13: with a textSumProperty configured, the textSumProperty of every
\* surviving cluster is the sum of the property over the markers in its
\* children, a marker without the property counting 0, and the clusters of
\* a level add up to the sum over all indexed points; with none configured
\* the textSumProperty of every cluster is 0.
C13_WeightedSum ==
    \A z \in ResultLevels :
       LET r == ResultAt(z)
       IN  /\ \A i \in 1..Len(r.clusters) :
                 r.clusters[i].textSumProperty =
                    IF textSumProperty
                    THEN SumOfProps(r.clusters[i].children) ELSE 0
           /\ textSumProperty =>
                 SumSeq([i \in 1..Len(r.clusters) |->
                            r.clusters[i].textSumProperty])
                    = SumOfProps([i \in 1..Len(markerPoints) |->
                                     markerPoints[i].id])

\* a level computed with a textSumProperty where a cluster that absorbed a
\* cell holds a marker without the property and a marker with it, its sum
\* differing from its count
C13_Witness ==
    /\ textSumProperty
    /\ \E z \in ResultLevels :
          \E i \in 1..Len(ResultAt(z).clusters) :
             LET c == ResultAt(z).clusters[i]
             IN  /\ \E k \in DOMAIN ResultAt(z).clusterMap :
                       k # c.key /\ ResultAt(z).clusterMap[k] = c.key
                 /\ \E n \in 1..Len(c.children) : PointOf(c.children[n]).prop = 0
                 /\ c.textSumProperty > 0
                 /\ c.textSumProperty # c.count

\* ------------------------------------------------------------ addGeometry
\* C14: addGeometry fails on a list with an element that is no Marker and
\* adds none of the list, so the layer holds nothing but Markers.  (A list
\* of Markers is added whole.)
C14_OnlyMarkersAdded ==
    \A i \in 1..Len(geoList) : geoList[i].type = "Marker"

\* ------------------------------------------------------------ the host
\* C15: a level the host has no resolution for is not computed: the cache
\* holds no cluster set for it, and for a layer with visible markers what
\* it holds for it differs from the null that stands for the clusters of an
\* empty layer.
C15_NoDataForLevel ==
    clusterCache.def =>
       \A z \in Levels \ resolutions :
          /\ z \notin ResultLevels
          /\ markerExtent.def => clusterCache.at[z] # NullResult

\* ------------------------------------------------------- maxClusterZoom
\* layer.getClusters()
GetClusters == IF currentClusters.def THEN currentClusters.list ELSE <<>>

\* the clusters a draw of the layer as it is reports at level z
ClustersAt(z) ==
    GetClustersToDraw(
        ZoomClusters(ComputeGrid(geoList, z, NoExtent, <<>>, NoCache,
                                 maxClusterRadius).cache.at[z]),
        noClusterWithOneMarker).clusters

\* the last handler was a draw at a zoom above maxClusterZoom
DrewAbove == last.op = "draw" /\ maxClusterZoom # 0 /\ zoom > maxClusterZoom

\* C16 as claimed: a draw at a zoom above maxClusterZoom does not fail and
\* yields the clusters of the level maxClusterZoom.
C16_ClampsToBound ==
    DrewAbove => /\ error = "none"
                 /\ GetClusters = ClustersAt(maxClusterZoom)

\* C16 amended: a draw at a zoom above maxClusterZoom does not fail and
\* yields no cluster: it drops the current clusters and gives every marker
\* of the layer to the drawing of markers.
C16_DeclustersAbove ==
    DrewAbove => /\ error = "none"
                 /\ currentClusters = Undefined
                 /\ GetClusters = <<>>
                 /\ markersToDraw =
                       Defined([i \in 1..Len(geoList) |-> geoList[i].id])

\* a draw above maxClusterZoom of a layer whose markers make a cluster at
\* the level maxClusterZoom, which the cache holds
C16_Witness ==
    /\ DrewAbove
    /\ maxClusterZoom \in ResultLevels
    /\ ~clusterNeedRedraw
    /\ Len(ClustersAt(maxClusterZoom)) > 0

\* ------------------------------------------------------ malformed input
\* the geometries of the layer whose coordinate is finite
FiniteGeos == SelectSeq(geoList, LAMBDA g : g.x # NaN /\ g.y # NaN)

\* C17: a visible feature whose coordinate is not finite is left out of the
\* index without failing the build: after a draw of the clusters no indexed
\* point has such a coordinate, the index is as many points short of the
\* visible features as there are such features, and every level is what it
\* would be without them.
C17_MalformedExcluded ==
    DrewClusters =>
       /\ \A i \in 1..Len(markerPoints) :
             markerPoints[i].x # NaN /\ markerPoints[i].y # NaN
       /\ Len(markerPoints) = Len(VisibleGeos(FiniteGeos))
       /\ clusterNeedRedraw \/ Len(last.computed) = 0 \/
             \A z \in ResultLevels :
                ResultAt(z) = ComputeGrid(FiniteGeos, zoom, NoExtent, <<>>,
                                         NoCache, maxClusterRadius).cache.at[z]

\* ------------------------------------------------------- cached results
\* the step is a draw of the clusters that finds the flag set and so clears
\* the cache
ClearsCache ==
    clusterNeedRedraw /\ last'.op = "draw" /\ ~(maxClusterZoom # 0 /\ zoom > maxClusterZoom)

\* C18: a step that does not clear the cache leaves every level result the
\* cache holds as it is (its clusters with their key, count, centre,
\* children and parent, and its clusterMap) and does not run
\* _computeZoomGrid for a level that holds a result.
C18_StableResults ==
    [][~ClearsCache =>
          \A z \in ResultLevels :
             /\ clusterCache'.def
             /\ clusterCache'.at[z] = clusterCache.at[z]
             /\ z \notin Range(last'.computed)]_vars

\* a zoom end back to a level the cache held, which computed nothing, with
\* a finer level cached as well
C18_Witness ==
    /\ last.op = "onZoomEnd"
    /\ ~SkipZoomEnd
    /\ last.computed = <<>>
    /\ zoom \in ResultLevels
    /\ zoom < MaxZoom
    /\ (zoom + 1) \in ResultLevels

\* ------------------------------------------------------- merge maximality
\* the cells a and b are 8-adjacent and their centres before the merge are
\* within the merge radius r2 / 2 of each other
Mergeable(a, b, r2) ==
    LET dx == a.center.x * b.center.d - b.center.x * a.center.d
        dy == a.center.y * b.center.d - b.center.y * a.center.d
        dd == a.center.d * b.center.d
    IN  /\ a.key # b.key
        /\ a.key[1] - b.key[1] \in {-1, 0, 1}
        /\ a.key[2] - b.key[2] \in {-1, 0, 1}
        /\ 4 * (dx * dx + dy * dy) <= r2 * r2 * dd * dd

\* no two surviving clusters of level z come from mergeable cells
NoMergeableSurvivors(z) ==
    LET grids == CellsBeforeMerge(z)
        alive == ClusterKeys(ResultAt(z))
    IN  \A a, b \in 1..Len(grids) :
           Mergeable(grids[a], grids[b], CellSize(z, maxClusterRadius)) =>
              ~(grids[a].key \in alive /\ grids[b].key \in alive)

\* a cell of level z that was absorbed has absorbed no cell
AbsorbedAbsorbNothing(z) ==
    LET m == ResultAt(z).clusterMap
    IN  \A k \in DOMAIN m : m[k] # k => \A j \in DOMAIN m : m[j] # k

\* C19 as claimed: in every level result no two surviving clusters come
\* from mergeable cells, every surviving cell has absorbed each cell it is
\* mergeable with, and an absorbed cell has absorbed nothing.
C19_AbsorbsEveryNear ==
    \A z \in ResultLevels :
       LET grids == CellsBeforeMerge(z)
           r == ResultAt(z)
       IN  /\ NoMergeableSurvivors(z)
           /\ AbsorbedAbsorbNothing(z)
           /\ \A a, b \in 1..Len(grids) :
                 (/\ Mergeable(grids[a], grids[b], CellSize(z, maxClusterRadius))
                  /\ grids[a].key \in ClusterKeys(r))
                 => r.clusterMap[grids[b].key] = grids[a].key

\* C19 amended: in every level result no two surviving clusters come from
\* mergeable cells, every cell that a surviving cell is mergeable with was
\* absorbed, by that cell or by another surviving cell it is mergeable
\* with, and an absorbed cell has absorbed nothing.
C19_MergeMaximal ==
    \A z \in ResultLevels :
       LET grids == CellsBeforeMerge(z)
           r == ResultAt(z)
       IN  /\ NoMergeableSurvivors(z)
           /\ AbsorbedAbsorbNothing(z)
           /\ \A a, b \in 1..Len(grids) :
                 (/\ Mergeable(grids[a], grids[b], CellSize(z, maxClusterRadius))
                  /\ grids[a].key \in ClusterKeys(r))
                 => LET by == r.clusterMap[grids[b].key]
                    IN  /\ by # grids[b].key
                        /\ by \in ClusterKeys(r)
                        /\ Mergeable(grids[IndexOfKey(grids, by)], grids[b],
                                     CellSize(z, maxClusterRadius))

\* a level where a surviving cell is mergeable with a cell that another
\* surviving cell absorbed
C19_Witness ==
    \E z \in ResultLevels :
       LET grids == CellsBeforeMerge(z)
           r == ResultAt(z)
       IN  \E a, b \in 1..Len(grids) :
              /\ Mergeable(grids[a], grids[b], CellSize(z, maxClusterRadius))
              /\ grids[a].key \in ClusterKeys(r)
              /\ r.clusterMap[grids[b].key] \notin {grids[a].key, grids[b].key}

\* ------------------------------------------------ cache and configuration
\* C20: the clusters a draw at a clustering level reports are those that the
\* layer's markers give at the zoom's level with the cell size of the current
\* maxClusterRadius, also when the draw follows a change of that option.
C20_CurrentRadius ==
    DrewClusters => GetClusters = ClustersAt(zoom)

\* ------------------------------------------------- the level of a draw
\* the last handler was a draw at a zoom not above maxClusterZoom of a layer
\* that holds a visible marker
DrewVisibleMarkers ==
    /\ last.op = "draw"
    /\ ~(maxClusterZoom # 0 /\ zoom > maxClusterZoom)
    /\ VisibleIds # {}

\* C21: after a draw at a zoom not above maxClusterZoom of a layer that
\* holds a visible marker, the cache holds a result for the zoom's level and
\* every visible marker is a child of one of that level's clusters.
C21_DrawHasLevel ==
    DrewVisibleMarkers =>
       /\ clusterCache.def
       /\ IsResult(CacheGet(clusterCache.at, zoom))
       /\ VisibleIds \subseteq Range(ChildrenOf(ResultAt(zoom)))

====
